---- MODULE Spec2Model ----
(***************************************************************************)
(* Model of rename_photos.py: the candidate scanner, the date resolver,    *)
(* the target namer, the batch planner and the executor.                   *)
(*                                                                         *)
(* Strings are sequences of tokens, so that formatting, joining and        *)
(* splitting are computed and two differently built names can coincide     *)
(* ("B" with counter 1 is the same name as the literal "B_1").             *)
(***************************************************************************)
EXTENDS Integers, Sequences, FiniteSets, TLC

VARIABLES
    fs,        \* the files on disk: absolute path -> content identity
    dirs,      \* the directories on disk (absolute paths)
    meta,      \* content identity -> what the metadata readers see in it
    args,      \* the parsed command line (paths, simulate, use_filetime, format)
    pc,        \* position of main
    run,       \* "first" or "second" invocation of the program
    files,     \* main's candidate list
    i,         \* index of the planning loop
    dt,        \* the date resolved for files[i] (between resolving and naming)
    mapping,   \* main's plan: sequence of <<src, target>>
    failures,  \* main's failure list: sequence of <<src, reason>>
    j,         \* index of the execution loop
    rc,        \* main's return code
    out,       \* lines printed / logged by main and rename_file, in order
    ops,       \* filesystem mutations executed by this run, in order
    fs0,       \* the files on disk when the current run started
    dirs0,     \* the directories on disk when the current run started
    prev,      \* summary of the previous run (mode, rc, number of renames)
    ext,       \* whether the environment has already removed a file
    rin,       \* input of one call of get_image_datetime
    rout,      \* its result
    nin,       \* input of one call of unique_target_path
    nout       \* its result

vars == <<fs, dirs, meta, args, pc, run, files, i, dt, mapping, failures,
          j, rc, out, ops, fs0, dirs0, prev, ext, rin, rout, nin, nout>>

mainVars == <<fs, dirs, meta, args, pc, run, files, i, dt, mapping,
              failures, j, rc, out, ops, fs0, dirs0, prev, ext>>

-----------------------------------------------------------------------------
(* Strings and paths *)

\* s.split(sep)[0]: the part of s before the first sep
SplitFirst(s, sep) ==
    IF \E k \in 1..Len(s) : s[k] = sep
    THEN SubSeq(s, 1, (CHOOSE k \in 1..Len(s) : s[k] = sep /\ \A m \in 1..(k-1) : s[m] # sep) - 1)
    ELSE s

RECURSIVE Strip(_)
\* s.strip(): leading and trailing blanks removed
Strip(s) ==
    IF s = <<>> THEN s
    ELSE IF Head(s) = " " THEN Strip(Tail(s))
    ELSE IF s[Len(s)] = " " THEN Strip(SubSeq(s, 1, Len(s) - 1))
    ELSE s

\* position of the last occurrence of token c in s, 0 when there is none
LastIndex(s, c) ==
    IF \E k \in 1..Len(s) : s[k] = c
    THEN CHOOSE k \in 1..Len(s) : s[k] = c /\ \A m \in (k+1)..Len(s) : s[m] # c
    ELSE 0

\* os.path.dirname
Dirname(p) == SubSeq(p, 1, LastIndex(p, "/") - 1)

\* os.path.basename
Basename(p) == SubSeq(p, LastIndex(p, "/") + 1, Len(p))

\* os.path.splitext(p)[1].lstrip("."): the text after the last dot of the
\* last component (a leading dot does not start an extension)
ExtOf(p) ==
    LET b == Basename(p)
        k == LastIndex(b, ".")
    IN  IF k <= 1 THEN <<>> ELSE SubSeq(b, k + 1, Len(b))

\* os.path.join for a relative second part
Join(d, name) == d \o <<"/">> \o name

Cwd == <<"/", "w">>

\* os.path.abspath on a path without "." and ".." components
Abspath(p) == IF p # <<>> /\ p[1] = "/" THEN p ELSE Join(Cwd, p)

LowerTok(t) == IF t = "JPG" THEN "jpg" ELSE t

\* str.lower
Lower(s) == [k \in 1..Len(s) |-> LowerTok(s[k])]

Digits == <<"0", "1", "2", "3", "4", "5", "6", "7", "8", "9">>

RECURSIVE IntToStr(_)
\* the decimal text an f-string gives a non-negative integer
IntToStr(n) ==
    IF n < 10 THEN <<Digits[n + 1]>>
    ELSE IntToStr(n \div 10) \o <<Digits[(n % 10) + 1]>>

-----------------------------------------------------------------------------
(* Date resolver *)

Dates == {1, 2}

\* "no date": the None of the Optional[datetime] results
None == 0

\* the text of a date under the pattern "%Y:%m:%d %H:%M:%S"
DateText(d) == IF d = 1 THEN "2023:05:01 10:20:30" ELSE "2023:05:02 08:00:00"

\* datetime.strptime(val, "%Y:%m:%d %H:%M:%S"); None when it raises because
\* val does not match the pattern
Strptime(val) ==
    IF \E d \in Dates : val = <<DateText(d)>>
    THEN CHOOSE d \in Dates : val = <<DateText(d)>>
    ELSE None

ExifreadTags == <<"EXIF DateTimeOriginal", "EXIF DateTimeDigitized", "Image DateTime">>

ExiftoolKeys == <<"DateTimeOriginal", "CreateDate", "DateTime">>

\* A tag value is [kind, text]: kind "absent" (no such tag), "str" (a string,
\* text its tokens) or "number" (a JSON value that is no string).
AbsentVal == [kind |-> "absent", text |-> <<>>]
StrVal(s) == [kind |-> "str", text |-> s]
NumberVal == [kind |-> "number", text |-> <<>>]

RECURSIVE ExifreadScan(_, _)
\* the loop over the three tags of parse_exif_date_exifread, from tag k on
ExifreadScan(tags, k) ==
    IF k > Len(ExifreadTags) THEN None
    ELSE IF tags[k].kind = "absent" THEN ExifreadScan(tags, k + 1)
    ELSE IF Strptime(tags[k].text) # None THEN Strptime(tags[k].text)
    ELSE ExifreadScan(tags, k + 1)

\* parse_exif_date_exifread: m.ex.st is "nomodule" when exifread could not be
\* imported, "raise" when opening or reading the file fails, else "ok" and
\* m.ex.tags are the three tag values
parse_exif_date_exifread(m) ==
    IF m.ex.st = "nomodule" THEN None
    ELSE IF m.ex.st = "raise" THEN None
    ELSE ExifreadScan(m.ex.tags, 1)

RECURSIVE ExiftoolScan(_, _)
\* the loop over the three keys of parse_exif_date_exiftool, from key k on;
\* a missing or falsy value is passed over, val.split on a value that is no
\* string raises, and that exception is caught outside the loop
ExiftoolScan(info, k) ==
    IF k > Len(ExiftoolKeys) THEN None
    ELSE IF info[k].kind = "absent" \/ info[k] = StrVal(<<>>) THEN ExiftoolScan(info, k + 1)
    ELSE IF info[k].kind = "number" THEN None
    ELSE LET val == Strip(SplitFirst(SplitFirst(info[k].text, "+"), "-"))
         IN  IF Strptime(val) # None THEN Strptime(val)
             ELSE ExiftoolScan(info, k + 1)

\* parse_exif_date_exiftool: m.et.st is "notfound" (exiftool not installed),
\* "raise" (running it fails), "empty" (no output), "notlist" (output that
\* is no non-empty list), "badjson" (output that is no JSON), else "ok" and
\* m.et.info are the three values of the first record
parse_exif_date_exiftool(m) ==
    IF m.et.st # "ok" THEN None
    ELSE ExiftoolScan(m.et.info, 1)

\* datetime.fromtimestamp: seconds to a calendar date
FromTimestamp(ts) == ts \div 100

\* get_image_datetime: m.mt.st is "raise" when os.path.getmtime fails, else
\* m.mt.ts is the modification time
get_image_datetime(m, use_filetime) ==
    LET d1 == parse_exif_date_exifread(m)
        d2 == parse_exif_date_exiftool(m)
    IN  IF d1 # None THEN d1
        ELSE IF d2 # None THEN d2
        ELSE IF use_filetime /\ m.mt.st = "ok" THEN FromTimestamp(m.mt.ts)
        ELSE None

-----------------------------------------------------------------------------
(* Target namer *)

\* f"{base_name}.{ext}"
PlainName(base_name, e) == base_name \o <<".">> \o e

\* f"{base_name}_{counter}.{ext}"
CountedName(base_name, counter, e) ==
    base_name \o <<"_">> \o IntToStr(counter) \o <<".">> \o e

RECURSIVE Probe(_, _, _, _, _)
\* the while loop of unique_target_path from the given counter on; E is the
\* set of paths for which os.path.exists is true
Probe(E, directory, base_name, e, counter) ==
    LET candidate == Join(directory, CountedName(base_name, counter, e))
    IN  IF candidate \notin E THEN candidate
        ELSE Probe(E, directory, base_name, e, counter + 1)

\* the counter started one too high
unique_target_path_from2(E, directory, base_name, e) ==
    LET candidate == Join(directory, PlainName(base_name, e))
    IN  IF candidate \notin E THEN candidate
        ELSE Probe(E, directory, base_name, e, 2)

\* unique_target_path
unique_target_path(E, directory, base_name, e) ==
    LET candidate == Join(directory, PlainName(base_name, e))
    IN  IF candidate \notin E THEN candidate
        ELSE Probe(E, directory, base_name, e, 1)

-----------------------------------------------------------------------------
(* The filesystem and the command line of main *)

\* DEFAULT_EXTENSIONS
DEFAULT_EXTENSIONS ==
    {<<"jpg">>, <<"jpeg">>, <<"heic">>, <<"cr2">>, <<"nef">>, <<"arw">>, <<"raf">>,
     <<"dng">>, <<"png">>}

\* the directory given on the command line, relative to the working directory
PhotoDir == <<"d">>

\* the default --format and the names it gives the two dates
DefaultFormat == "%Y-%m-%d_%H-%M-%S"
Stamp(d) == IF d = 1 THEN "2023-05-01_10-20-30" ELSE "2023-05-02_08-00-00"

\* a --format with a directory separator, and one strftime rejects
MonthFormat == "%Y/%m"
BadFormat == "\\udcff%Y"
Formats == {DefaultFormat, MonthFormat, BadFormat}

\* dt.strftime(format): [ok, text, err]
Strftime(d, format) ==
    IF format = DefaultFormat THEN [ok |-> TRUE, text |-> <<Stamp(d)>>, err |-> ""]
    ELSE IF format = MonthFormat THEN [ok |-> TRUE, text |-> <<"2023", "/", "05">>, err |-> ""]
    ELSE [ok |-> FALSE, text |-> <<>>, err |-> "surrogates not allowed"]

FileIn(d, name, e) == Join(Abspath(d), name \o <<".", e>>)

\* The files that may be on disk before the first run, in a fixed order; a
\* file's content identity is its position here.
UniverseFiles ==
    << FileIn(PhotoDir, <<"img">>, "jpg"),
       FileIn(PhotoDir, <<"pic">>, "JPG"),
       FileIn(PhotoDir, <<"cat">>, "jpg"),
       FileIn(PhotoDir, <<Stamp(1)>>, "jpg"),
       FileIn(PhotoDir, <<"notes">>, "txt") >>

Contents == 1..Len(UniverseFiles)

\* What the readers see in a photo: a capture date in the primary reader's
\* first tag, or no metadata at all; exiftool is not installed.
NoTags == <<AbsentVal, AbsentVal, AbsentVal>>
MetaExif ==
    [ex |-> [st |-> "ok", tags |-> <<StrVal(<<DateText(1)>>), AbsentVal, AbsentVal>>],
     et |-> [st |-> "notfound", info |-> NoTags],
     mt |-> [st |-> "ok", ts |-> 200]]
MetaPlain ==
    [ex |-> [st |-> "ok", tags |-> NoTags],
     et |-> [st |-> "notfound", info |-> NoTags],
     mt |-> [st |-> "ok", ts |-> 200]]
\* what the readers see at a path where there is no file
MetaMissing ==
    [ex |-> [st |-> "raise", tags |-> NoTags],
     et |-> [st |-> "notfound", info |-> NoTags],
     mt |-> [st |-> "raise", ts |-> 0]]
MetaClasses == {MetaExif, MetaPlain}

\* os.path.isfile, os.path.isdir, os.path.exists
IsFile(F, p) == Abspath(p) \in DOMAIN F
IsDir(Ds, p) == Abspath(p) \in Ds
Exists(F, Ds) == DOMAIN F \cup Ds

MetaAt(F, M, p) == IF p \in DOMAIN F THEN M[F[p]] ELSE MetaMissing

-----------------------------------------------------------------------------
(* Candidate scanner *)

\* the entries of directory p as os.listdir may order them
Listings(F, Ds, p) ==
    LET names == {Basename(q) : q \in {q \in DOMAIN F \cup Ds : Dirname(q) = Abspath(p)}}
        n == Cardinality(names)
    IN  {o \in [1..n -> names] : \A a, b \in 1..n : o[a] = o[b] => a = b}

\* the extension test of iter_candidates
Wanted(p, extset) == Lower(ExtOf(p)) \in extset

RECURSIVE ListDir(_, _, _, _, _)
\* the non-recursive branch of iter_candidates over the listing o, from k on
ListDir(F, p, o, k, extset) ==
    IF k > Len(o) THEN <<>>
    ELSE LET full == Join(p, o[k])
         IN  (IF IsFile(F, full) /\ Wanted(full, extset) THEN <<Abspath(full)>> ELSE <<>>)
             \o ListDir(F, p, o, k + 1, extset)

RECURSIVE iter_candidates(_, _, _, _, _)
\* iter_candidates with recursive = False; o is the order in which
\* os.listdir gives the entries of the photo directory during this scan
iter_candidates(F, Ds, paths, o, extset) ==
    IF paths = <<>> THEN <<>>
    ELSE LET p == Head(paths)
             got == IF IsFile(F, p)
                    THEN (IF Wanted(p, extset) THEN <<Abspath(p)>> ELSE <<>>)
                    ELSE IF IsDir(Ds, p) THEN ListDir(F, p, o, 1, extset)
                    ELSE <<>>
         IN  got \o iter_candidates(F, Ds, Tail(paths), o, extset)

-----------------------------------------------------------------------------
(* Batch planner and executor *)

Event(e, s, t) == [ev |-> e, src |-> s, dst |-> t]

\* PlanEntry without the comparison of source and target
PlanEntry_NoSkip(E, src, d, format) ==
    LET base == Strftime(d, format)
        directory == Dirname(src)
        e == ExtOf(src)
        target == unique_target_path(E, directory, base.text, e)
    IN  IF ~base.ok THEN [kind |-> "fail", target |-> <<>>, reason |-> base.err]
        ELSE [kind |-> "plan", target |-> target, reason |-> ""]

\* lines 216-226 of main for one candidate with the date d: a plan entry, a
\* skip (target equals source) or a failure (strftime raised)
PlanEntry(E, src, d, format) ==
    LET base == Strftime(d, format)
        directory == Dirname(src)
        e == ExtOf(src)
        target == unique_target_path(E, directory, base.text, e)
    IN  IF ~base.ok THEN [kind |-> "fail", target |-> <<>>, reason |-> base.err]
        ELSE IF Abspath(src) = Abspath(target)
             THEN [kind |-> "skip", target |-> target, reason |-> ""]
        ELSE [kind |-> "plan", target |-> target, reason |-> ""]

RECURSIVE Ancestors(_)
\* a directory and the directories above it
Ancestors(d) == IF Len(d) <= 1 THEN {} ELSE {d} \cup Ancestors(Dirname(d))

\* rename_file(src, dst, simulate=False): os.makedirs(dirname(dst),
\* exist_ok=True), then shutil.move(src, dst), which replaces a file at dst.
\* Gives the filesystem afterwards, the mutations made and whether it raised.
rename_file(F, Ds, src, dst) ==
    LET d == Dirname(dst)
        blocked == \E a \in Ancestors(d) : a \in DOMAIN F
        made == IF blocked THEN {} ELSE Ancestors(d) \ Ds
        Ds2 == Ds \cup made
        mk == IF made = {} THEN <<>>
              ELSE <<[op |-> "mkdir", src |-> d, dst |-> d, overwrote |-> FALSE]>>
    IN  IF blocked
        THEN [fs |-> F, dirs |-> Ds, ops |-> <<>>, ok |-> FALSE, err |-> "File exists"]
        ELSE IF src \notin DOMAIN F
        THEN [fs |-> F, dirs |-> Ds2, ops |-> mk, ok |-> FALSE,
              err |-> "No such file or directory"]
        ELSE [fs |-> [q \in (DOMAIN F \ {src}) \cup {dst} |->
                         IF q = dst THEN F[src] ELSE F[q]],
              dirs |-> Ds2,
              ops |-> mk \o <<[op |-> "move", src |-> src, dst |-> dst,
                               overwrote |-> dst \in DOMAIN F]>>,
              ok |-> TRUE, err |-> ""]

-----------------------------------------------------------------------------
(* main *)

MaxExisting == 2
MaxArgs == 2

\* the paths that may be given on the command line
ArgPaths == {PhotoDir, Join(PhotoDir, <<"img", ".", "jpg">>)}

ArgLists == UNION {[1..n -> ArgPaths] : n \in 1..MaxArgs}

IsPhoto(c) == Wanted(UniverseFiles[c], DEFAULT_EXTENSIONS)

NoRun == [simulate |-> FALSE, rc |-> 0, renamed |-> 0, failed |-> 0]

\* the quiescent values of the variables of the two function-level checks
IdleCalls ==
    /\ rin = [m |-> MetaMissing, use_filetime |-> FALSE]
    /\ rout = [done |-> FALSE, dt |-> None]
    /\ nin = [E |-> {}, directory |-> <<>>, base_name |-> <<>>, ext |-> <<>>]
    /\ nout = [done |-> FALSE, path |-> <<>>]

Init ==
    /\ \E S \in SUBSET Contents :
          /\ Cardinality(S) <= MaxExisting
          /\ fs = [p \in {UniverseFiles[c] : c \in S} |->
                      CHOOSE c \in S : UniverseFiles[c] = p]
          /\ meta \in [Contents -> MetaClasses]
          /\ \A c \in Contents : (c \notin S \/ ~IsPhoto(c)) => meta[c] = MetaPlain
    /\ dirs = {Cwd, Abspath(PhotoDir)}
    /\ args \in [paths : ArgLists, simulate : BOOLEAN, use_filetime : BOOLEAN,
                 format : Formats]
    /\ pc = "scan"
    /\ run = "first"
    /\ files = <<>>
    /\ i = 1
    /\ dt = None
    /\ mapping = <<>>
    /\ failures = <<>>
    /\ j = 1
    /\ rc = 0
    /\ out = <<>>
    /\ ops = <<>>
    /\ fs0 = fs
    /\ dirs0 = dirs
    /\ prev = NoRun
    /\ ext = FALSE
    /\ IdleCalls

\* main, lines 198-207: collect the candidates; none is a clean exit
Scan ==
    /\ pc = "scan"
    /\ \E o \in Listings(fs, dirs, PhotoDir) :
          files' = iter_candidates(fs, dirs, args.paths, o, DEFAULT_EXTENSIONS)
    /\ IF files' = <<>>
       THEN /\ out' = Append(out, Event("no-files", <<>>, <<>>))
            /\ rc' = 0
            /\ pc' = "done"
       ELSE /\ out' = Append(out, Event("found", <<>>, <<>>))
            /\ rc' = rc
            /\ pc' = "plan"
    /\ UNCHANGED <<fs, dirs, meta, args, run, i, dt, mapping, failures, j, ops, fs0,
                   dirs0, prev, ext, rin, rout, nin, nout>>

\* Resolve with the failure record of a dateless candidate left out
Resolve_DropsNoDate ==
    /\ pc = "plan"
    /\ i <= Len(files)
    /\ LET src == files[i]
           d == get_image_datetime(MetaAt(fs, meta, src), args.use_filetime)
       IN  IF d = None
           THEN /\ out' = Append(out, Event("no-date", src, <<>>))
                /\ failures' = failures
                /\ i' = i + 1
                /\ dt' = None
                /\ pc' = "plan"
           ELSE /\ dt' = d
                /\ pc' = "name"
                /\ UNCHANGED <<out, failures, i>>
    /\ UNCHANGED <<fs, dirs, meta, args, run, files, mapping, j, rc, ops, fs0, dirs0,
                   prev, ext, rin, rout, nin, nout>>

\* main, lines 209-215: resolve the date of the next candidate
Resolve ==
    /\ pc = "plan"
    /\ i <= Len(files)
    /\ LET src == files[i]
           d == get_image_datetime(MetaAt(fs, meta, src), args.use_filetime)
       IN  IF d = None
           THEN /\ out' = Append(out, Event("no-date", src, <<>>))
                /\ failures' = Append(failures, <<src, "no-date">>)
                /\ i' = i + 1
                /\ dt' = None
                /\ pc' = "plan"
           ELSE /\ dt' = d
                /\ pc' = "name"
                /\ UNCHANGED <<out, failures, i>>
    /\ UNCHANGED <<fs, dirs, meta, args, run, files, mapping, j, rc, ops, fs0, dirs0,
                   prev, ext, rin, rout, nin, nout>>

\* main, lines 216-226: name the target of the candidate whose date is dt
Name ==
    /\ pc = "name"
    /\ LET src == files[i]
           r == PlanEntry(Exists(fs, dirs), src, dt, args.format)
       IN  /\ mapping' = IF r.kind = "plan" THEN Append(mapping, <<src, r.target>>)
                         ELSE mapping
           /\ failures' = IF r.kind = "fail" THEN Append(failures, <<src, r.reason>>)
                          ELSE failures
           /\ out' = IF r.kind = "skip" THEN Append(out, Event("same", src, r.target))
                     ELSE IF r.kind = "fail" THEN Append(out, Event("failed-processing", src, <<>>))
                     ELSE out
    /\ i' = i + 1
    /\ dt' = None
    /\ pc' = "plan"
    /\ UNCHANGED <<fs, dirs, meta, args, run, files, j, rc, ops, fs0, dirs0, prev, ext,
                   rin, rout, nin, nout>>

RECURSIVE PlannedLines(_)
\* main, lines 234-235: one printed line per plan entry
PlannedLines(m) ==
    IF m = <<>> THEN <<>>
    ELSE <<Event("planned", Head(m)[1], Head(m)[2])>> \o PlannedLines(Tail(m))

\* Summary with the simulate flag ignored
Summary_NoSimulate ==
    /\ pc = "plan"
    /\ i > Len(files)
    /\ IF mapping = <<>>
       THEN /\ out' = Append(out, Event("nothing-to-rename", <<>>, <<>>))
            /\ rc' = 0
            /\ pc' = "done"
       ELSE /\ out' = out \o PlannedLines(mapping)
            /\ rc' = rc
            /\ pc' = "exec"
    /\ UNCHANGED <<fs, dirs, meta, args, run, files, i, dt, mapping, failures, j, ops,
                   fs0, dirs0, prev, ext, rin, rout, nin, nout>>

\* main, lines 228-239: after the planning loop
Summary ==
    /\ pc = "plan"
    /\ i > Len(files)
    /\ IF mapping = <<>>
       THEN /\ out' = Append(out, Event("nothing-to-rename", <<>>, <<>>))
            /\ rc' = 0
            /\ pc' = "done"
       ELSE IF args.simulate
       THEN /\ out' = out \o PlannedLines(mapping) \o <<Event("simulation", <<>>, <<>>)>>
            /\ rc' = 0
            /\ pc' = "done"
       ELSE /\ out' = out \o PlannedLines(mapping)
            /\ rc' = rc
            /\ pc' = "exec"
    /\ UNCHANGED <<fs, dirs, meta, args, run, files, i, dt, mapping, failures, j, ops,
                   fs0, dirs0, prev, ext, rin, rout, nin, nout>>

\* Exec with the loop left at the first failure
Exec_StopsOnFailure ==
    /\ pc = "exec"
    /\ j <= Len(mapping)
    /\ LET s == mapping[j][1]
           t == mapping[j][2]
           r == rename_file(fs, dirs, s, t)
       IN  /\ fs' = r.fs
           /\ dirs' = r.dirs
           /\ ops' = ops \o r.ops
           /\ out' = Append(out, Event(IF r.ok THEN "RENAMED" ELSE "failed-renaming", s, t))
           /\ failures' = IF r.ok THEN failures ELSE Append(failures, <<s, r.err>>)
           /\ j' = IF r.ok THEN j + 1 ELSE Len(mapping) + 1
    /\ UNCHANGED <<meta, args, pc, run, files, i, dt, mapping, rc, fs0, dirs0, prev, ext,
                   rin, rout, nin, nout>>

\* main, lines 242-247: attempt the next plan entry
Exec ==
    /\ pc = "exec"
    /\ j <= Len(mapping)
    /\ LET s == mapping[j][1]
           t == mapping[j][2]
           r == rename_file(fs, dirs, s, t)
       IN  /\ fs' = r.fs
           /\ dirs' = r.dirs
           /\ ops' = ops \o r.ops
           /\ out' = Append(out, Event(IF r.ok THEN "RENAMED" ELSE "failed-renaming", s, t))
           /\ failures' = IF r.ok THEN failures ELSE Append(failures, <<s, r.err>>)
    /\ j' = j + 1
    /\ UNCHANGED <<meta, args, pc, run, files, i, dt, mapping, rc, fs0, dirs0, prev, ext,
                   rin, rout, nin, nout>>

\* Finish with the failure list not consulted
Finish_Zero ==
    /\ pc = "exec"
    /\ j > Len(mapping)
    /\ rc' = 0
    /\ out' = Append(out, Event("done", <<>>, <<>>))
    /\ pc' = "done"
    /\ UNCHANGED <<fs, dirs, meta, args, run, files, i, dt, mapping, failures, j, ops,
                   fs0, dirs0, prev, ext, rin, rout, nin, nout>>

\* main, lines 249-256: the return code after the execution loop
Finish ==
    /\ pc = "exec"
    /\ j > Len(mapping)
    /\ rc' = IF failures # <<>> THEN 2 ELSE 0
    /\ out' = Append(out, Event(IF failures # <<>> THEN "not-processed" ELSE "done", <<>>, <<>>))
    /\ pc' = "done"
    /\ UNCHANGED <<fs, dirs, meta, args, run, files, i, dt, mapping, failures, j, ops,
                   fs0, dirs0, prev, ext, rin, rout, nin, nout>>

\* number of moves this run has carried out
Renamed == Cardinality({k \in 1..Len(ops) : ops[k].op = "move"})

\* the program is started once more with the same command line
Rerun ==
    /\ pc = "done"
    /\ run = "first"
    /\ run' = "second"
    /\ prev' = [simulate |-> args.simulate, rc |-> rc, renamed |-> Renamed,
                failed |-> Len(failures)]
    /\ pc' = "scan"
    /\ files' = <<>>
    /\ i' = 1
    /\ dt' = None
    /\ mapping' = <<>>
    /\ failures' = <<>>
    /\ j' = 1
    /\ rc' = 0
    /\ out' = <<>>
    /\ ops' = <<>>
    /\ fs0' = fs
    /\ dirs0' = dirs
    /\ UNCHANGED <<fs, dirs, meta, args, ext, rin, rout, nin, nout>>

Next ==
    \/ Scan
    \/ Resolve
    \/ Name
    \/ Summary
    \/ Exec
    \/ Finish
    \/ Rerun

Spec == Init /\ [][Next]_vars

-----------------------------------------------------------------------------
(* The filesystem changing under the program: another process removes a     *)
(* file while main is planning (at most once)                               *)

ExternalRemove ==
    /\ pc \in {"plan", "name"}
    /\ ~ext
    /\ \E p \in DOMAIN fs : fs' = [q \in DOMAIN fs \ {p} |-> fs[q]]
    /\ ext' = TRUE
    /\ UNCHANGED <<dirs, meta, args, pc, run, files, i, dt, mapping, failures, j, rc,
                   out, ops, fs0, dirs0, prev, rin, rout, nin, nout>>

\* one invocation of the program, with the environment
NextExt ==
    \/ Scan
    \/ Resolve
    \/ Name
    \/ Summary
    \/ Exec
    \/ Finish
    \/ ExternalRemove

SpecExt == Init /\ [][NextExt]_vars

-----------------------------------------------------------------------------
(* get_image_datetime on its own: one call on every combination of reader   *)
(* outcomes                                                                 *)

\* main is not running
MainIdle ==
    /\ fs = <<>>
    /\ dirs = {}
    /\ meta = <<>>
    /\ args = [paths |-> <<>>, simulate |-> FALSE, use_filetime |-> FALSE,
               format |-> DefaultFormat]
    /\ pc = "idle"
    /\ run = "first"
    /\ files = <<>>
    /\ i = 1
    /\ dt = None
    /\ mapping = <<>>
    /\ failures = <<>>
    /\ j = 1
    /\ rc = 0
    /\ out = <<>>
    /\ ops = <<>>
    /\ fs0 = <<>>
    /\ dirs0 = {}
    /\ prev = NoRun
    /\ ext = FALSE

\* values of a tag of the primary reader: none, a date, a date with a zone
\* suffix, text that is no date
ExifreadValues ==
    {AbsentVal, StrVal(<<DateText(1)>>), StrVal(<<DateText(2), "+", "01:00">>),
     StrVal(<<"junk">>)}

\* values of a field of exiftool's JSON record: none, an empty string, a
\* number, a date, dates with a zone suffix, text that is no date
ExiftoolValues ==
    {AbsentVal, StrVal(<<>>), NumberVal, StrVal(<<DateText(1)>>),
     StrVal(<<DateText(2), "+", "01:00">>), StrVal(<<DateText(2), " ", "-", "05:00">>),
     StrVal(<<"junk">>)}

ExifreadOutcomes ==
    {[st |-> "nomodule", tags |-> NoTags], [st |-> "raise", tags |-> NoTags]}
    \cup [st : {"ok"}, tags : [1..3 -> ExifreadValues]]

ExiftoolOutcomes ==
    [st : {"notfound", "raise", "empty", "notlist", "badjson"}, info : {NoTags}]
    \cup [st : {"ok"}, info : [1..3 -> ExiftoolValues]]

MtimeOutcomes == {[st |-> "raise", ts |-> 0], [st |-> "ok", ts |-> 100], [st |-> "ok", ts |-> 200]}

InitResolver ==
    /\ MainIdle
    /\ rin \in [m : [ex : ExifreadOutcomes, et : ExiftoolOutcomes, mt : MtimeOutcomes],
                use_filetime : BOOLEAN]
    /\ rout = [done |-> FALSE, dt |-> None]
    /\ nin = [E |-> {}, directory |-> <<>>, base_name |-> <<>>, ext |-> <<>>]
    /\ nout = [done |-> FALSE, path |-> <<>>]

ResolveCall ==
    /\ ~rout.done
    /\ rout' = [done |-> TRUE, dt |-> get_image_datetime(rin.m, rin.use_filetime)]
    /\ UNCHANGED <<mainVars, rin, nin, nout>>

SpecResolver == InitResolver /\ [][ResolveCall]_vars

-----------------------------------------------------------------------------
(* unique_target_path on its own: one call on every set of existing paths   *)

OtherDir == <<"e">>

NamerBases == {<<Stamp(1)>>, <<Stamp(1), "_", "1">>}
NamerExts == {<<"jpg">>, <<"png">>}
NamerDirs == {Abspath(PhotoDir), Abspath(OtherDir)}

\* the paths that may exist when unique_target_path is called
NamerUniverse ==
    {Join(Abspath(PhotoDir), PlainName(<<Stamp(1)>>, <<"jpg">>)),
     Join(Abspath(PhotoDir), CountedName(<<Stamp(1)>>, 1, <<"jpg">>)),
     Join(Abspath(PhotoDir), CountedName(<<Stamp(1)>>, 2, <<"jpg">>)),
     Join(Abspath(PhotoDir), CountedName(<<Stamp(1)>>, 3, <<"jpg">>)),
     Join(Abspath(PhotoDir), CountedName(<<Stamp(1), "_", "1">>, 1, <<"jpg">>)),
     Join(Abspath(PhotoDir), PlainName(<<Stamp(1)>>, <<"png">>)),
     Join(Abspath(PhotoDir), CountedName(<<Stamp(1)>>, 1, <<"png">>)),
     Join(Abspath(OtherDir), PlainName(<<Stamp(1)>>, <<"jpg">>))}

InitNamer ==
    /\ MainIdle
    /\ rin = [m |-> MetaMissing, use_filetime |-> FALSE]
    /\ rout = [done |-> FALSE, dt |-> None]
    /\ nin \in [E : SUBSET NamerUniverse, directory : NamerDirs, base_name : NamerBases,
                ext : NamerExts]
    /\ nout = [done |-> FALSE, path |-> <<>>]

NamerCall ==
    /\ ~nout.done
    /\ nout' = [done |-> TRUE,
                path |-> unique_target_path(nin.E, nin.directory, nin.base_name, nin.ext)]
    /\ UNCHANGED <<mainVars, rin, rout, nin>>

SpecNamer == InitNamer /\ [][NamerCall]_vars

-----------------------------------------------------------------------------
(* C4: the priority chain of the date resolver *)

\* what one source of the chain yields, as the claim describes it: the value
\* when it is present and parses, nothing otherwise
PrimaryYield(m, k) ==
    IF m.ex.st = "ok" /\ m.ex.tags[k].kind = "str" THEN Strptime(m.ex.tags[k].text)
    ELSE None

SecondaryYield(m, k) ==
    IF m.et.st = "ok" /\ m.et.info[k].kind = "str"
    THEN Strptime(Strip(SplitFirst(SplitFirst(m.et.info[k].text, "+"), "-")))
    ELSE None

MtimeYield(m, use_filetime) ==
    IF use_filetime /\ m.mt.st = "ok" THEN FromTimestamp(m.mt.ts) ELSE None

\* the seven sources in their priority order
Chain(m, use_filetime) ==
    <<PrimaryYield(m, 1), PrimaryYield(m, 2), PrimaryYield(m, 3),
      SecondaryYield(m, 1), SecondaryYield(m, 2), SecondaryYield(m, 3),
      MtimeYield(m, use_filetime)>>

FirstYield(c) ==
    IF \E k \in 1..Len(c) : c[k] # None
    THEN c[CHOOSE k \in 1..Len(c) : c[k] # None /\ \A n \in 1..(k-1) : c[n] = None]
    ELSE None

\* C4: get_image_datetime returns the first value of the chain (primary
\* tags, secondary fields, then the modification time when enabled) that is
\* present and parses; an unparsable value is passed over and the chain
\* continues; the result is "no date" exactly when no source yields a value.
C4_FirstOfChain ==
    rout.done => rout.dt = FirstYield(Chain(rin.m, rin.use_filetime))

-----------------------------------------------------------------------------
(* C5: the target namer returns the first free name *)

C5_Plain == Join(nin.directory, PlainName(nin.base_name, nin.ext))
C5_Counted(k) == Join(nin.directory, CountedName(nin.base_name, k, nin.ext))

\* C5: unique_target_path returns directory/base.ext when that path does not
\* exist; otherwise directory/base_k.ext for the smallest k >= 1 whose path
\* does not exist; the path it returns never exists.
C5_FirstFreeName ==
    nout.done =>
        /\ nout.path \notin nin.E
        /\ C5_Plain \notin nin.E => nout.path = C5_Plain
        /\ C5_Plain \in nin.E =>
              \E k \in 1..(Cardinality(nin.E) + 1) :
                  /\ nout.path = C5_Counted(k)
                  /\ \A n \in 1..(k - 1) : C5_Counted(n) \in nin.E

\* a call that had to pass over two taken names, with a later name taken too
C5_Witness ==
    /\ nout.done
    /\ C5_Plain \in nin.E
    /\ C5_Counted(1) \in nin.E
    /\ C5_Counted(2) \notin nin.E
    /\ C5_Counted(3) \in nin.E
    /\ nout.path = C5_Counted(2)

-----------------------------------------------------------------------------
(* Reading the state of main *)

EndOfPlanning == pc = "plan" /\ i > Len(files)

IsPlanned(e) == e.ev = "planned"
IsAttempt(e) == e.ev \in {"RENAMED", "failed-renaming"}
IsSame(e) == e.ev = "same"
IsPlanningFailure(f) == f[2] \in {"no-date", "surrogates not allowed"}
IsRenameFailure(f) == ~IsPlanningFailure(f)

\* the rename attempts made so far, in order
Attempts == SelectSeq(out, IsAttempt)

\* the date and the base name main resolves for the path p
DateOf(p) == get_image_datetime(MetaAt(fs, meta, p), args.use_filetime)
BaseOf(p) == Strftime(DateOf(p), args.format)

PlanSources == {mapping[k][1] : k \in 1..Len(mapping)}
FailureSources == {failures[k][1] : k \in 1..Len(failures)}

\* every plan entry has been attempted once, in plan order, and every entry
\* whose attempt did not fail has been moved
AllAttempted ==
    /\ Len(Attempts) = Len(mapping)
    /\ \A k \in 1..Len(Attempts) :
          /\ Attempts[k].src = mapping[k][1]
          /\ Attempts[k].dst = mapping[k][2]
    /\ Cardinality({k \in 1..Len(Attempts) : Attempts[k].ev = "RENAMED"}) = Renamed

-----------------------------------------------------------------------------
(* C1: two candidates with the same base name *)

\* C1: for two candidates in the same directory with the same extension
\* whose timestamps format to the same base name B, where neither B.ext nor
\* B_1.ext exists before the run, the plan holds two distinct targets: the
\* first entry targets B.ext and the second B_1.ext.
C1_SecondGetsSuffix ==
    EndOfPlanning =>
        \A a, b \in 1..Len(files) :
            LET B == BaseOf(files[a]).text
                d == Dirname(files[a])
                e == ExtOf(files[a])
            IN  ( /\ a < b
                  /\ files[a] # files[b]
                  /\ Dirname(files[b]) = d
                  /\ ExtOf(files[b]) = e
                  /\ DateOf(files[a]) # None
                  /\ DateOf(files[b]) # None
                  /\ BaseOf(files[a]).ok
                  /\ BaseOf(files[b]).text = B
                  /\ Len(files) = 2
                  /\ Join(d, PlainName(B, e)) \notin Exists(fs0, dirs0)
                  /\ Join(d, CountedName(B, 1, e)) \notin Exists(fs0, dirs0) )
                => mapping = << <<files[a], Join(d, PlainName(B, e))>>,
                                <<files[b], Join(d, CountedName(B, 1, e))>> >>

-----------------------------------------------------------------------------
(* C2: the return code *)

\* C2 as claimed: the return code is zero when nothing failed and 2 whenever
\* a file could not be resolved or renamed, in either mode and whether or
\* not the plan is empty; with 2 every planned rename has been attempted.
C2_NonZeroOnAnyFailure ==
    pc = "done" =>
        /\ failures = <<>> => rc = 0
        /\ failures # <<>> => rc = 2
        /\ rc = 2 => AllAttempted

\* C2 as amended: the return code is 2 exactly when the run is in execution
\* mode, its plan is not empty and at least one file could not be resolved
\* or renamed; it is 0 in every other case (no candidates, an empty plan even
\* with unresolved files, simulation mode, all renames succeeded); with 2
\* every plan entry has been attempted and the entries that did not fail
\* have been moved.
C2_ReturnCode ==
    pc = "done" =>
        /\ rc = IF ~args.simulate /\ mapping # <<>> /\ failures # <<>> THEN 2 ELSE 0
        /\ rc = 2 => AllAttempted

\* a run that ended with 2 after one rename failed and another was done
C2_Witness ==
    /\ pc = "done"
    /\ rc = 2
    /\ \E k \in 1..Len(out) : out[k].ev = "failed-renaming"
    /\ \E k \in 1..Len(out) : out[k].ev = "RENAMED"

-----------------------------------------------------------------------------
(* C3: simulation mode *)

\* C3: in simulation mode nothing on disk changes: no move and no directory
\* creation is executed, the files and directories are those of the start of
\* the run, and the run returns 0.
C3_SimulationMutatesNothing ==
    args.simulate =>
        /\ ops = <<>>
        /\ fs = fs0
        /\ dirs = dirs0
        /\ pc = "done" => rc = 0

\* a simulation that printed a plan and returned
C3_Witness ==
    /\ args.simulate
    /\ pc = "done"
    /\ mapping # <<>>
    /\ \E k \in 1..Len(out) : out[k].ev = "simulation"

-----------------------------------------------------------------------------
(* C6: planning gives every candidate occurrence one outcome *)

NSame == Len(SelectSeq(out, IsSame))

\* one iteration of the planning loop for files[i] has been completed
C6_OneOutcome ==
    LET src == files[i]
        planned == /\ Len(mapping') = Len(mapping) + 1
                   /\ SubSeq(mapping', 1, Len(mapping)) = mapping
                   /\ mapping'[Len(mapping')][1] = src
                   /\ failures' = failures
                   /\ NSame' = NSame
        failed ==  /\ Len(failures') = Len(failures) + 1
                   /\ SubSeq(failures', 1, Len(failures)) = failures
                   /\ failures'[Len(failures')][1] = src
                   /\ mapping' = mapping
                   /\ NSame' = NSame
        skipped == /\ NSame' = NSame + 1
                   /\ mapping' = mapping
                   /\ failures' = failures
    IN  /\ planned \/ failed \/ skipped
        /\ DateOf(src) = None => failures' = Append(failures, <<src, "no-date">>)

\* C6: planning takes the candidates in order and never stops early; each
\* occurrence gives exactly one of a plan entry, a failure record or a skip;
\* a candidate without a date gives the record (source, "no-date"); the plan
\* is executed only when every candidate has been processed; and no source
\* is in both the plan and the failure list while planning.
C6_Planning ==
    /\ [][(pc \in {"plan", "name"} /\ i' # i) =>
            (i <= Len(files) /\ i' = i + 1 /\ files' = files /\ C6_OneOutcome)]_vars
    /\ [](pc \in {"plan", "name"} =>
            /\ Len(mapping) + Len(failures) + NSame = i - 1
            /\ PlanSources \cap FailureSources = {})
    /\ [](pc = "exec" => i = Len(files) + 1)

\* planning ended with a plan entry and a "no-date" record
C6_Witness ==
    /\ EndOfPlanning
    /\ mapping # <<>>
    /\ \E k \in 1..Len(failures) : failures[k][2] = "no-date"
    /\ Len(mapping) + Len(failures) = Len(files)

-----------------------------------------------------------------------------
(* C7: the execution loop *)

Position(e) == CHOOSE k \in 1..Len(out) : out[k] = e

\* C7: every plan entry is attempted once, in plan order, after the whole
\* plan has been built and printed; a failed move puts the entry's source
\* and the error in the failure list and the later entries are still
\* attempted.
C7_Execution ==
    /\ Attempts # <<>> =>
          /\ i = Len(files) + 1
          /\ SelectSeq(out, IsPlanned) = PlannedLines(mapping)
          /\ \A a, b \in 1..Len(out) :
                (IsPlanned(out[a]) /\ IsAttempt(out[b])) => a < b
    /\ pc = "exec" => Len(Attempts) = j - 1
    /\ \A k \in 1..Len(Attempts) :
          /\ k <= Len(mapping)
          /\ Attempts[k].src = mapping[k][1]
          /\ Attempts[k].dst = mapping[k][2]
    /\ (pc = "done" /\ ~args.simulate /\ mapping # <<>>) => Len(Attempts) = Len(mapping)
    /\ LET failedAttempts == SelectSeq(Attempts, LAMBDA e : e.ev = "failed-renaming")
           renameFailures == SelectSeq(failures, IsRenameFailure)
       IN  /\ Len(failedAttempts) = Len(renameFailures)
           /\ \A k \in 1..Len(failedAttempts) :
                 failedAttempts[k].src = renameFailures[k][1]

\* a finished run in which a move failed and a later entry was attempted
C7_Witness ==
    /\ pc = "done"
    /\ \E a, b \in 1..Len(Attempts) :
          a < b /\ Attempts[a].ev = "failed-renaming" /\ Attempts[b].ev = "RENAMED"

-----------------------------------------------------------------------------
(* C8: a target equal to the source *)

\* the target main resolves for the candidate being named
C8_Target ==
    unique_target_path(Exists(fs, dirs), Dirname(files[i]),
                       Strftime(dt, args.format).text, ExtOf(files[i]))

\* C8: when the target resolved for a candidate equals its source path, the
\* candidate adds nothing to the plan nor to the failure list; no plan entry
\* has its target equal to its source.
C8_NoOp ==
    /\ [][(pc = "name" /\ pc' = "plan" /\ Strftime(dt, args.format).ok
              /\ Abspath(C8_Target) = Abspath(files[i]))
            => (mapping' = mapping /\ failures' = failures)]_vars
    /\ [](\A k \in 1..Len(mapping) : Abspath(mapping[k][1]) # Abspath(mapping[k][2]))

\* a candidate was skipped because its target is its own path, and it is in
\* neither list
C8_Witness ==
    \E k \in 1..Len(out) :
        /\ out[k].ev = "same"
        /\ out[k].src = out[k].dst
        /\ out[k].src \notin PlanSources \cup FailureSources

-----------------------------------------------------------------------------
(* C9: no file is lost *)

\* C9: no move replaces an existing file, so a finished run leaves as many
\* files as it found and every content is still there under some path.
C9_NoFileLost ==
    /\ \A k \in 1..Len(ops) : ops[k].op = "move" => ~ops[k].overwrote
    /\ pc = "done" =>
          /\ Cardinality(DOMAIN fs) = Cardinality(DOMAIN fs0)
          /\ {fs[p] : p \in DOMAIN fs} = {fs0[p] : p \in DOMAIN fs0}

-----------------------------------------------------------------------------
(* C10: a second run *)

\* the path p is already named base.ext for its own date
AlreadyNamed(p) ==
    /\ DateOf(p) # None
    /\ BaseOf(p).ok
    /\ p = Join(Dirname(p), PlainName(BaseOf(p).text, ExtOf(p)))

\* C10: a candidate already named base.ext for its own timestamp gives no
\* plan entry, so a second run right after an execution-mode run in which
\* every rename succeeded plans nothing and renames nothing.
C10_Idempotent ==
    /\ pc \in {"plan", "name"} =>
          \A k \in 1..Len(mapping) : ~AlreadyNamed(mapping[k][1])
    /\ (run = "second" /\ ~prev.simulate /\ prev.rc = 0 /\ prev.failed = 0) =>
          (mapping = <<>> /\ ops = <<>>)

====
